---- MODULE Spec2Model ----
(***************************************************************************)
(* Slot allocation and reminder scheduling of the Chatbot_app backend:     *)
(* backend/apps/routes/reminders.py (book_appointment, send_reminder,      *)
(* schedule_reminders, send_email), the callers in routes/patients.py      *)
(* (create_patient) and routes/appointments.py (create_appointment,        *)
(* update_appointment, delete_appointment, send_reminder_endpoint), and    *)
(* the APScheduler job store the jobs wait in.                             *)
(*                                                                         *)
(* Time is counted in quarter hours; a date is a day number.  Day 0 is     *)
(* yesterday, day 1 is the day the process starts on.                      *)
(***************************************************************************)
EXTENDS Integers, Sequences, FiniteSets, Bags, TLC

VARIABLES
    files,      \* data/appointments/{patient_id}.json: the "appointments" list (<<>>: no file)
    apptStore,  \* apps/data/appointments/appointment_{id}.json, or NoFile
    patients,   \* apps/data/patients/patient_{id}.json: the e-mail stored, or None
    heap,       \* the appointment dicts the scheduler's jobs refer to
    jobs,       \* the pending jobs of the BackgroundScheduler
    clock,      \* datetime.now(), in quarter hours
    outbox,     \* bag of the messages handed to send_email, with its result
    log,        \* logs/reminders_log.txt
    last,       \* the operation that ran last and what it observed
    frames      \* the book_appointment calls in progress, one per caller thread

vars == <<files, apptStore, patients, heap, jobs, clock, outbox, log, last, frames>>

-----------------------------------------------------------------------------
(* Bounds *)

MaxTicks == 6          \* quarter hours the clock may advance
MaxObjs == 2           \* appointment dicts ever handed to the scheduler
MaxDepth == 2          \* frames of book_appointment before the interpreter gives up

(* Units *)

HourUnits == 4
DayUnits == 24 * HourUnits

Today(now) == now \div DayUnits

None == "None"
NoDate == -1
BadDate == -2          \* a date text that is no calendar date, such as "2025-13-45"
NoAppt == [appointment_id |-> None, patient_id |-> None, date |-> NoDate,
           slot |-> None, status |-> None, reminders_sent |-> << >>]
NoFile == NoAppt

Patients == {"p1", "p2"}
Served == {"p1"}       \* the patient the requests tried are about
ApptIdInputs == {"A001"}
Statuses == {"upcoming", "completed", "cancelled"}
Emails == {"a@x"}
StartClock == DayUnits + 7 * HourUnits + 3      \* 07:45 on day 1
MaxClock == StartClock + MaxTicks

(* preferred dates a caller passes: yesterday; NoDate stands for no
   preferred date, which book_appointment reads as today *)
Dates == {Today(StartClock) - 1}

Range(s) == {s[i] : i \in DOMAIN s}

(* the threads (or worker processes) book_appointment is called on *)
Threads == {"t1", "t2"}

(* the threads of the scheduler's pool that run send_reminder *)
Workers == {"w1"}

NoJob == [obj |-> 0, email |-> None, kind |-> None, fire_at |-> 0]

(* the frame of a thread that is not inside book_appointment or
   send_reminder *)
NoFrame == [pc |-> "idle", patient_id |-> None, date |-> NoDate, email |-> None,
            appointment |-> << >>, appt |-> NoAppt, outcome |-> None, job |-> NoJob]

-----------------------------------------------------------------------------
(* The daily grid: [f"{h}:00-{h+1}:00" for h in range(9, 17)] *)

Grid == << "9:00-10:00", "10:00-11:00", "11:00-12:00", "12:00-13:00",
           "13:00-14:00", "14:00-15:00", "15:00-16:00", "16:00-17:00" >>

(* Slots a caller of the appointments endpoint can pass: the model's      *)
(* pattern is two digits for every field.                                 *)
EndpointSlots == {"09:15-09:45"}

(* datetime.strptime(slot.split('-')[0], "%H:%M"), in quarter hours *)
SlotStart(s) ==
    CASE s = "9:00-10:00"  -> 9 * HourUnits
      [] s = "09:15-09:45" -> 9 * HourUnits + 1
      [] s = "10:00-11:00" -> 10 * HourUnits
      [] s = "11:00-12:00" -> 11 * HourUnits
      [] s = "12:00-13:00" -> 12 * HourUnits
      [] s = "13:00-14:00" -> 13 * HourUnits
      [] s = "14:00-15:00" -> 14 * HourUnits
      [] s = "15:00-16:00" -> 15 * HourUnits
      [] s = "16:00-17:00" -> 16 * HourUnits

(* f"A{n:03d}" *)
IdText == << "A001", "A002", "A003", "A004", "A005", "A006", "A007", "A008",
             "A009", "A010", "A011", "A012" >>

(* f"Reminder-{n}" *)
GenericKind == << "Reminder-1", "Reminder-2", "Reminder-3", "Reminder-4",
                  "Reminder-5", "Reminder-6", "Reminder-7" >>

-----------------------------------------------------------------------------
(* reminders.py: schedule_reminders *)

Kinds == << "Reminder-60min", "Reminder-30min", "Final-Reminder" >>

(* datetime.strptime(f"{date} {slot start}", "%Y-%m-%d %H:%M") returns; it
   raises ValueError otherwise *)
Parses(a) == a.date # BadDate

(* appt_datetime: the date combined with the slot's start *)
ApptDatetime(a) == a.date * DayUnits + SlotStart(a.slot)

(* Candidates with the two offsets exchanged *)
CandidatesSwapped(a) ==
    << [kind |-> "Reminder-60min", fire_at |-> a.date * DayUnits + SlotStart(a.slot) - HourUnits \div 2],
       [kind |-> "Reminder-30min", fire_at |-> a.date * DayUnits + SlotStart(a.slot) - HourUnits],
       [kind |-> "Final-Reminder", fire_at |-> a.date * DayUnits + SlotStart(a.slot)] >>

(* the list `reminders` of (r_type, r_time) *)
Candidates(a) ==
    << [kind |-> "Reminder-60min", fire_at |-> ApptDatetime(a) - HourUnits],
       [kind |-> "Reminder-30min", fire_at |-> ApptDatetime(a) - HourUnits \div 2],
       [kind |-> "Final-Reminder", fire_at |-> ApptDatetime(a)] >>

(* IsDue with >= for > *)
IsDueInclusive(r_time, now) == r_time >= now

(* the test `r_time > datetime.now()` of the loop *)
IsDue(r_time, now) == r_time > now

(* the add_job calls of one schedule_reminders(appointment, patient_email) *)
Plan(a, now) == SelectSeq(Candidates(a), LAMBDA r : IsDue(r.fire_at, now))

(* the jobs those calls leave in the job store, for the dict at heap index o *)
PlanJobs(o, a, email, now) ==
    { [obj |-> o, email |-> email, kind |-> r.kind, fire_at |-> r.fire_at] :
        r \in Range(Plan(a, now)) }

-----------------------------------------------------------------------------
(* reminders.py: send_email / send_reminder *)

(* what send_email is called with (the appointment_id is not in the text of
   the message; it names the dict the message is about), and what it returned *)
Message(a, email, kind, ok) ==
    [to |-> email, patient_id |-> a.patient_id, appointment_id |-> a.appointment_id,
     date |-> a.date, slot |-> a.slot, kind |-> kind, ok |-> ok]

(* the list written back: every entry with the dict's appointment_id is
   replaced by the dict *)
SaveBack(file, a) ==
    [i \in DOMAIN file |->
        IF file[i].appointment_id = a.appointment_id THEN a ELSE file[i]]

(* the reminder_type send_reminder works with *)
KindOf(a, reminder_type) ==
    IF reminder_type = None
    THEN GenericKind[Len(a.reminders_sent) + 1]
    ELSE reminder_type

(* Deliver marking the kind only when the e-mail went out *)
DeliverMarkingOnSuccess(st, a, email, reminder_type, ok, now) ==
    LET kind == IF reminder_type = None
                THEN GenericKind[Len(a.reminders_sent) + 1] ELSE reminder_type
        a2 == IF email # None /\ ~ ok THEN a
              ELSE [a EXCEPT !.reminders_sent = Append(@, kind)]
        pid == a.patient_id
    IN  [a |-> a2,
         files |-> IF st.files[pid] # << >>
                   THEN [st.files EXCEPT ![pid] =
                           [i \in DOMAIN @ |->
                              IF @[i].appointment_id = a2.appointment_id THEN a2 ELSE @[i]]]
                   ELSE st.files,
         outbox |-> IF email # None
                    THEN st.outbox (+) SetToBag({[to |-> email, patient_id |-> pid,
                                                  appointment_id |-> a.appointment_id,
                                                  date |-> a.date, slot |-> a.slot,
                                                  kind |-> kind, ok |-> ok]})
                    ELSE st.outbox,
         log |-> Append(st.log, [kind |-> kind, patient_id |-> pid, at |-> now]),
         kind |-> kind,
         outcome |-> IF email = None THEN "no_email"
                     ELSE IF ok THEN "sent" ELSE "send_failed"]

(* send_reminder past its duplicate check: the kind is appended, the file of
   the patient rewritten if there is one, the e-mail sent if there is an
   address, the log line written.  st holds files, outbox and log; ok is what
   send_email returns if it is called. *)
Deliver(st, a, email, reminder_type, ok, now) ==
    LET kind == KindOf(a, reminder_type)
        a2 == [a EXCEPT !.reminders_sent = Append(@, kind)]
        pid == a.patient_id
    IN  [a |-> a2,
         files |-> IF st.files[pid] # << >>
                   THEN [st.files EXCEPT ![pid] = SaveBack(@, a2)]
                   ELSE st.files,
         outbox |-> IF email # None
                    THEN st.outbox (+) SetToBag({Message(a2, email, kind, ok)})
                    ELSE st.outbox,
         log |-> Append(st.log, [kind |-> kind, patient_id |-> pid, at |-> now]),
         kind |-> kind,
         outcome |-> IF email = None THEN "no_email"
                     ELSE IF ok THEN "sent" ELSE "send_failed"]

(* send_reminder without its duplicate check *)
SendReminderUnchecked(st, a, email, reminder_type, ok, now) ==
    Deliver(st, a, email, reminder_type, ok, now)

(* send_reminder writing its log line for a duplicate too *)
SendReminderLoggingDuplicates(st, a, email, reminder_type, ok, now) ==
    IF KindOf(a, reminder_type) \in Range(a.reminders_sent)
    THEN [a |-> a, files |-> st.files, outbox |-> st.outbox,
          log |-> Append(st.log, [kind |-> KindOf(a, reminder_type),
                                  patient_id |-> a.patient_id, at |-> now]),
          kind |-> KindOf(a, reminder_type), outcome |-> "duplicate"]
    ELSE Deliver(st, a, email, reminder_type, ok, now)

(* send_reminder(appointment, patient_email, reminder_type) on the dict a:
   the dict and the stores afterwards, and what happened *)
SendReminder(st, a, email, reminder_type, ok, now) ==
    IF KindOf(a, reminder_type) \in Range(a.reminders_sent)
    THEN [a |-> a, files |-> st.files, outbox |-> st.outbox, log |-> st.log,
          kind |-> KindOf(a, reminder_type), outcome |-> "duplicate"]
    ELSE Deliver(st, a, email, reminder_type, ok, now)

-----------------------------------------------------------------------------
(* reminders.py: book_appointment *)

(* used_slots without the oldest appointment's slot *)
UsedSlotsExceptFirst(file) == [i \in 1 .. Len(file) - 1 |-> file[i + 1].slot]

UsedSlots(file) == [i \in DOMAIN file |-> file[i].slot]

(* AvailableSlot without the test against used_slots *)
AvailableSlotAny(used_slots) == Grid[1]

(* next((s for s in slots if s not in used_slots), None) *)
AvailableSlot(used_slots) ==
    LET free == {i \in DOMAIN Grid : Grid[i] \notin Range(used_slots)}
    IN  IF free = {} THEN None
        ELSE Grid[CHOOSE i \in free : \A j \in free : i <= j]

(* the patient's file when schedule_reminders raises inside
   book_appointment without writing it back *)
AfterScheduleFailureRolledBack(file, new_appt) == file

(* the patient's file when schedule_reminders raises inside
   book_appointment: the list with new_appt was written before the call *)
AfterScheduleFailure(file, new_appt) == Append(file, new_appt)

(* NewAppt numbering from the count itself, not the count plus one *)
NewApptFromZero(patient_id, date_str, used_slots) ==
    [appointment_id |-> IF used_slots = << >> THEN "A000" ELSE IdText[Len(used_slots)],
     patient_id |-> patient_id,
     date |-> date_str,
     slot |-> AvailableSlot(used_slots),
     status |-> "upcoming",
     reminders_sent |-> << >>]

NewAppt(patient_id, date_str, used_slots) ==
    [appointment_id |-> IdText[Len(used_slots) + 1],
     patient_id |-> patient_id,
     date |-> date_str,
     slot |-> AvailableSlot(used_slots),
     status |-> "upcoming",
     reminders_sent |-> << >>]

(* The date the search of book_appointment(patient_id, date_str) settles on,
   or NoDate when the recursion has not found a slot after `depth` further
   frames (the interpreter then raises RecursionError).  Every frame reloads
   the same file. *)
RECURSIVE SearchDate(_, _, _)
SearchDate(file, date_str, depth) ==
    IF AvailableSlot(UsedSlots(file)) # None THEN date_str
    ELSE IF depth = 0 THEN NoDate
    ELSE SearchDate(file, date_str + 1, depth - 1)

(* book_appointment(patient_id, preferred_date, patient_email) at time now,
   on the patient's file and the scheduler's heap and jobs: what it leaves
   and what it returns (appt) or raises (outcome; appt is then the dict it
   had made, if any). *)
BookAppointment(file, hp, jb, patient_id, preferred_date, patient_email, now) ==
    LET date_str == IF preferred_date = NoDate THEN Today(now) ELSE preferred_date
        found == SearchDate(file, date_str, MaxDepth)
        new_appt == NewAppt(patient_id, found, UsedSlots(file))
        plan == Plan(new_appt, now)
    IN  IF date_str = BadDate /\ AvailableSlot(UsedSlots(file)) = None
        THEN \* strptime(date_str) for next_day raises
             [file |-> file, heap |-> hp, jobs |-> jb, appt |-> NoAppt, obj |-> 0,
              plan |-> << >>, outcome |-> "ValueError next_day"]
        ELSE IF found = NoDate
        THEN [file |-> file, heap |-> hp, jobs |-> jb, appt |-> NoAppt, obj |-> 0,
              plan |-> << >>, outcome |-> "RecursionError"]
        ELSE IF ~ Parses(new_appt)
        THEN \* schedule_reminders raises after the file has been written
             [file |-> AfterScheduleFailure(file, new_appt), heap |-> hp, jobs |-> jb,
              appt |-> new_appt, obj |-> 0, plan |-> << >>,
              outcome |-> "ValueError schedule_reminders"]
        ELSE [file |-> Append(file, new_appt),
              heap |-> IF plan = << >> THEN hp ELSE Append(hp, new_appt),
              jobs |-> jb \cup PlanJobs(Len(hp) + 1, new_appt, patient_email, now),
              appt |-> new_appt,
              obj |-> IF plan = << >> THEN 0 ELSE Len(hp) + 1,
              plan |-> plan, outcome |-> "booked"]

-----------------------------------------------------------------------------
(* What the operation that ran last was given and observed *)

Observed(op, patient_id, date, appt, obj, kind, email, plan, outcome) ==
    [op |-> op, patient_id |-> patient_id, date |-> date, appt |-> appt,
     obj |-> obj, kind |-> kind, email |-> email, plan |-> plan,
     now |-> clock, outcome |-> outcome]

Init ==
    /\ files = [p \in Patients |-> << >>]
    /\ apptStore = [id \in ApptIdInputs |-> NoFile]
    /\ patients = [p \in Patients |-> None]
    /\ heap = << >>
    /\ jobs = {}
    /\ clock = StartClock
    /\ outbox = EmptyBag
    /\ log = << >>
    /\ last = Observed("start", None, NoDate, NoAppt, 0, None, None, << >>, None)
    /\ frames = [t \in Threads \cup Workers |-> NoFrame]

(* the Booking API: book_appointment(p, d, e) called directly *)
Book(p, d, e) ==
    \E b \in {BookAppointment(files[p], heap, jobs, p, d, e, clock)} :
        /\ Len(b.heap) <= MaxObjs
        /\ files' = [files EXCEPT ![p] = b.file]
        /\ heap' = b.heap
        /\ jobs' = b.jobs
        /\ last' = Observed("book_appointment", p, d, b.appt, b.obj, None, e,
                            b.plan, b.outcome)
        /\ UNCHANGED <<apptStore, patients, clock, outbox, log, frames>>

(* book_appointment(p, d, e) on thread t, up to the point where the patient's
   file has been read into `appointment` *)
BookLoad(t, p, d, e) ==
    /\ frames[t].pc # "loaded"
    /\ frames' = [frames EXCEPT ![t] =
                    [pc |-> "loaded", patient_id |-> p, date |-> d, email |-> e,
                     appointment |-> files[p], appt |-> NoAppt, outcome |-> None,
                     job |-> NoJob]]
    /\ last' = Observed("book_appointment load", p, d, NoAppt, 0, None, e, << >>, None)
    /\ UNCHANGED <<files, apptStore, patients, heap, jobs, clock, outbox, log>>

(* the rest of that call: the slot and the id are taken from the list read
   before, the list with the new appointment is written over the file, the
   reminders are scheduled *)
BookStore(t) ==
    /\ frames[t].pc = "loaded"
    /\ \E b \in {BookAppointment(frames[t].appointment, heap, jobs, frames[t].patient_id,
                                  frames[t].date, frames[t].email, clock)} :
        /\ Len(b.heap) <= MaxObjs
        /\ files' = IF b.outcome \in {"booked", "ValueError schedule_reminders"}
                    THEN [files EXCEPT ![frames[t].patient_id] = b.file]
                    ELSE files
        /\ heap' = b.heap
        /\ jobs' = b.jobs
        /\ frames' = [frames EXCEPT ![t].pc = "returned", ![t].appt = b.appt,
                                     ![t].outcome = b.outcome]
        /\ last' = Observed("book_appointment", frames[t].patient_id, frames[t].date,
                            b.appt, b.obj, None, frames[t].email, b.plan, b.outcome)
    /\ UNCHANGED <<apptStore, patients, clock, outbox, log>>

(* patients.py: create_patient; oks are the results of the three send_email
   calls *)
ThreeReminders(b, st0, e, oks, now) ==
    LET r1 == SendReminder(st0, b.appt, e, None, oks[1], now)
        r2 == SendReminder(r1, r1.a, e, None, oks[2], now)
    IN  SendReminder(r2, r2.a, e, None, oks[3], now)

CreatePatient(p, e, oks) ==
    \E b \in {BookAppointment(files[p], heap, jobs, p, NoDate, None, clock)} :
    \E r3 \in {IF b.outcome = "booked"
                THEN ThreeReminders(b, [files |-> [files EXCEPT ![p] = b.file],
                                        outbox |-> outbox, log |-> log], e, oks, clock)
                ELSE [a |-> NoAppt]} :
        /\ patients[p] = None
        /\ Len(b.heap) <= MaxObjs
        /\ patients' = [patients EXCEPT ![p] = e]
        /\ IF b.outcome = "booked"
           THEN /\ files' = r3.files
                /\ heap' = IF b.obj = 0 THEN b.heap ELSE [b.heap EXCEPT ![b.obj] = r3.a]
                /\ jobs' = b.jobs
                /\ outbox' = r3.outbox
                /\ log' = r3.log
                /\ last' = Observed("create_patient", p, NoDate, r3.a, b.obj, r3.kind,
                                    e, b.plan, r3.outcome)
           ELSE /\ UNCHANGED <<files, heap, jobs, outbox, log>>
                /\ last' = Observed("create_patient", p, NoDate, NoAppt, 0, None, e,
                                    << >>, b.outcome)
        /\ UNCHANGED <<apptStore, clock, frames>>

(* a job of the scheduler that runs whenever the scheduler looks at it *)
RunDateAlways(run_date, now) == TRUE

(* the 'date' trigger of a job: it is due once its run_date has come *)
RunDateReached(run_date, now) == run_date <= now

(* the scheduler runs a job whose run_date has come *)
Fire(j, ok) ==
    /\ j \in jobs
    /\ RunDateReached(j.fire_at, clock)
    /\ \E r \in {SendReminder([files |-> files, outbox |-> outbox, log |-> log],
                               heap[j.obj], j.email, j.kind, ok, clock)} :
        /\ jobs' = jobs \ {j}
        /\ heap' = [heap EXCEPT ![j.obj] = r.a]
        /\ files' = r.files
        /\ outbox' = r.outbox
        /\ log' = r.log
        /\ last' = Observed("send_reminder", r.a.patient_id, NoDate, r.a, j.obj,
                            j.kind, j.email, << >>, r.outcome)
        /\ UNCHANGED <<apptStore, patients, clock, frames>>

(* a pool thread w starts the due job j: send_reminder up to the point where
   the patient's file has been read into `data`; the kind is in the dict by
   then.  A kind already in the dict ends the call at once. *)
FireRead(w, j) ==
    /\ j \in jobs
    /\ RunDateReached(j.fire_at, clock)
    /\ frames[w].pc = "idle"
    /\ jobs' = jobs \ {j}
    /\ IF j.kind \in Range(heap[j.obj].reminders_sent)
       THEN /\ last' = Observed("send_reminder", heap[j.obj].patient_id, NoDate,
                                heap[j.obj], j.obj, j.kind, j.email, << >>, "duplicate")
            /\ UNCHANGED <<heap, frames>>
       ELSE /\ heap' = [heap EXCEPT ![j.obj].reminders_sent = Append(@, j.kind)]
            /\ frames' = [frames EXCEPT ![w] =
                            [NoFrame EXCEPT !.pc = "saving",
                                            !.patient_id = heap[j.obj].patient_id,
                                            !.appointment = files[heap[j.obj].patient_id],
                                            !.job = j]]
            /\ last' = Observed("send_reminder read", heap[j.obj].patient_id, NoDate,
                                heap'[j.obj], j.obj, j.kind, j.email, << >>, None)
    /\ UNCHANGED <<files, apptStore, patients, clock, outbox, log>>

(* the rest of that call: the list read before, with the dict in the place
   of its record, is written over the file; the e-mail is sent, the log line
   written *)
FireWrite(w, ok) ==
    /\ frames[w].pc = "saving"
    /\ files' = IF frames[w].appointment # << >>
                THEN [files EXCEPT ![frames[w].patient_id] =
                        SaveBack(frames[w].appointment, heap[frames[w].job.obj])]
                ELSE files
    /\ outbox' = IF frames[w].job.email # None
                 THEN outbox (+) SetToBag({Message(heap[frames[w].job.obj],
                                                   frames[w].job.email,
                                                   frames[w].job.kind, ok)})
                 ELSE outbox
    /\ log' = Append(log, [kind |-> frames[w].job.kind,
                           patient_id |-> frames[w].patient_id, at |-> clock])
    /\ frames' = [frames EXCEPT ![w] = NoFrame]
    /\ last' = Observed("send_reminder", frames[w].patient_id, NoDate,
                        heap[frames[w].job.obj], frames[w].job.obj, frames[w].job.kind,
                        frames[w].job.email, << >>,
                        IF frames[w].job.email = None THEN "no_email"
                        ELSE IF ok THEN "sent" ELSE "send_failed")
    /\ UNCHANGED <<apptStore, patients, heap, jobs, clock>>

(* send_reminder called directly, with a reminder_type, on a dict that
   book_appointment returned *)
Dispatch(o, k, e, ok) ==
    /\ o \in DOMAIN heap
    /\ heap[o] # NoAppt
    /\ \E r \in {SendReminder([files |-> files, outbox |-> outbox, log |-> log],
                               heap[o], e, k, ok, clock)} :
        /\ heap' = [heap EXCEPT ![o] = r.a]
        /\ files' = r.files
        /\ outbox' = r.outbox
        /\ log' = r.log
        /\ last' = Observed("send_reminder", r.a.patient_id, NoDate, r.a, o, k, e,
                            << >>, r.outcome)
        /\ UNCHANGED <<apptStore, patients, jobs, clock, frames>>

(* a quarter of an hour passes; due jobs run first *)
Tick ==
    /\ clock < MaxClock
    /\ \A j \in jobs : ~ RunDateReached(j.fire_at, clock)
    /\ clock' = clock + 1
    /\ last' = Observed("tick", None, NoDate, NoAppt, 0, None, None, << >>, None)
    /\ UNCHANGED <<files, apptStore, patients, heap, jobs, outbox, log, frames>>

-----------------------------------------------------------------------------
(* appointments.py *)

(* bodies a caller posts to the appointments endpoint (AppointmentModel) *)
ApptInputs ==
    [appointment_id : ApptIdInputs, patient_id : Served,
     date : {Today(StartClock)}, slot : EndpointSlots,
     status : {"upcoming", "cancelled"},
     reminders_sent : {<< >>, << "Reminder-60min" >>}]

(* schedule_reminders(a, email) on a dict the caller has just made *)
Schedule(hp, jb, a, email, now) ==
    [heap |-> IF Plan(a, now) = << >> THEN hp ELSE Append(hp, a),
     jobs |-> jb \cup PlanJobs(Len(hp) + 1, a, email, now),
     obj |-> IF Plan(a, now) = << >> THEN 0 ELSE Len(hp) + 1,
     plan |-> Plan(a, now)]

(* POST /appointments/ *)
CreateAppointment(rec) ==
    LET known == patients[rec.patient_id] # None
        sc == Schedule(heap, jobs, rec, patients[rec.patient_id], clock)
    IN  IF apptStore[rec.appointment_id] # NoFile
        THEN /\ last' = Observed("create_appointment", rec.patient_id, rec.date, rec,
                                 0, None, None, << >>, "400")
             /\ UNCHANGED <<files, apptStore, patients, heap, jobs, clock, outbox, log, frames>>
        ELSE /\ apptStore' = [apptStore EXCEPT ![rec.appointment_id] = rec]
             /\ IF known /\ ~ Parses(rec)
                THEN \* schedule_reminders raises; `except Exception` answers 500
                     /\ UNCHANGED <<heap, jobs>>
                     /\ last' = Observed("create_appointment", rec.patient_id, rec.date,
                                         rec, 0, None, patients[rec.patient_id],
                                         << >>, "500")
                ELSE IF known
                THEN /\ Len(sc.heap) <= MaxObjs
                     /\ heap' = sc.heap
                     /\ jobs' = sc.jobs
                     /\ last' = Observed("create_appointment", rec.patient_id, rec.date,
                                         rec, sc.obj, None, patients[rec.patient_id],
                                         sc.plan, "201")
                ELSE /\ UNCHANGED <<heap, jobs>>
                     /\ last' = Observed("create_appointment", rec.patient_id, rec.date,
                                         rec, 0, None, None, << >>, "201 unscheduled")
             /\ UNCHANGED <<files, patients, clock, outbox, log, frames>>

(* PUT /appointments/{id}: the body replaces the stored record; the bodies
   tried here differ from it in the status *)
UpdateAppointment(id, st) ==
    /\ apptStore[id] # NoFile
    /\ apptStore[id].status # st
    /\ apptStore' = [apptStore EXCEPT ![id].status = st]
    /\ last' = Observed("update_appointment", apptStore[id].patient_id, NoDate,
                        apptStore'[id], 0, None, None, << >>, "200")
    /\ UNCHANGED <<files, patients, heap, jobs, clock, outbox, log, frames>>

(* DELETE /appointments/{id} *)
DeleteAppointment(id) ==
    /\ apptStore[id] # NoFile
    /\ apptStore' = [apptStore EXCEPT ![id] = NoFile]
    /\ last' = Observed("delete_appointment", apptStore[id].patient_id, NoDate,
                        apptStore[id], 0, None, None, << >>, "204")
    /\ UNCHANGED <<files, patients, heap, jobs, clock, outbox, log, frames>>

(* POST /appointments/send_reminder/{id} *)
SendReminderEndpoint(id) ==
    LET appointment_data == apptStore[id]
        email == patients[appointment_data.patient_id]
        sc == Schedule(heap, jobs, appointment_data, email, clock)
    IN  IF appointment_data = NoFile
        THEN /\ last' = Observed("send_reminder_endpoint", None, NoDate, NoAppt, 0,
                                 None, None, << >>, "404")
             /\ UNCHANGED <<files, apptStore, patients, heap, jobs, clock, outbox, log, frames>>
        ELSE IF email = None \/ ~ Parses(appointment_data)
        THEN \* HTTPException(404) is raised inside the try and caught by
             \* `except Exception`, and so is the ValueError of
             \* schedule_reminders
             /\ last' = Observed("send_reminder_endpoint", appointment_data.patient_id,
                                 NoDate, appointment_data, 0, None, None, << >>, "500")
             /\ UNCHANGED <<files, apptStore, patients, heap, jobs, clock, outbox, log, frames>>
        ELSE /\ Len(sc.heap) <= MaxObjs
             /\ heap' = sc.heap
             /\ jobs' = sc.jobs
             /\ last' = Observed("send_reminder_endpoint", appointment_data.patient_id,
                                 NoDate, appointment_data, sc.obj, None, email,
                                 sc.plan, "200")
             /\ UNCHANGED <<files, apptStore, patients, clock, outbox, log, frames>>

(* the process is stopped and started again: `scheduler = BackgroundScheduler()`
   starts with an empty in-memory job store and the dicts of the old process
   are gone (their heap indices are not reused); the files stay *)
Restart ==
    /\ jobs # {}
    /\ heap' = [i \in DOMAIN heap |-> NoAppt]
    /\ jobs' = {}
    /\ last' = Observed("restart", None, NoDate, NoAppt, 0, None, None, << >>, None)
    /\ UNCHANGED <<files, apptStore, patients, clock, outbox, log, frames>>

-----------------------------------------------------------------------------

(* the backend as deployed: patients are created through create_patient,
   appointments of the endpoint store through the appointments router *)
Next ==
    \/ \E p \in Served, e \in Emails, ok \in BOOLEAN :
          CreatePatient(p, e, [i \in 1 .. 3 |-> ok])
    \/ \E rec \in ApptInputs : CreateAppointment(rec)
    \/ \E id \in ApptIdInputs, st \in Statuses : UpdateAppointment(id, st)
    \/ \E id \in ApptIdInputs : DeleteAppointment(id)
    \/ \E id \in ApptIdInputs : SendReminderEndpoint(id)
    \/ \E j \in jobs, ok \in BOOLEAN : Fire(j, ok)
    \/ Tick

Spec == Init /\ [][Next]_vars

(* the same with the process stopped and started again at any time *)
NextRestart ==
    \/ \E p \in Served, e \in Emails, ok \in BOOLEAN :
          CreatePatient(p, e, [i \in 1 .. 3 |-> ok])
    \/ \E j \in jobs, ok \in BOOLEAN : Fire(j, ok)
    \/ Tick
    \/ Restart

SpecRestart == Init /\ [][NextRestart]_vars

(* the Booking API called directly, with the scheduler running *)
NextBook ==
    \/ \E p \in Served, d \in Dates \cup {NoDate}, e \in Emails : Book(p, d, e)
    \/ \E j \in jobs, ok \in BOOLEAN : Fire(j, ok)
    \/ Tick

SpecBook == Init /\ [][NextBook]_vars

(* a caller of reminders.py that books one appointment for today and sends
   its reminders itself, before any of them is due *)
NextDispatch ==
    \/ heap = << >> /\ \E p \in Served, e \in Emails \cup {None} : Book(p, NoDate, e)
    \/ \E o \in DOMAIN heap, k \in Range(Kinds), e \in Emails \cup {None},
          ok \in BOOLEAN : Dispatch(o, k, e, ok)

SpecDispatch == Init /\ [][NextDispatch]_vars

(* bodies posted to the appointments endpoint whose date matches the
   pattern \d{4}-\d{2}-\d{2} and is, or is not, a calendar date *)
FaultInputs ==
    [appointment_id : ApptIdInputs, patient_id : Served,
     date : {Today(StartClock), BadDate}, slot : EndpointSlots,
     status : {"upcoming"}, reminders_sent : {<< >>}]

(* callers that pass dates schedule_reminders cannot parse *)
NextFault ==
    \/ \E p \in Served, e \in Emails :
          CreatePatient(p, e, [i \in 1 .. 3 |-> TRUE])
    \/ \E rec \in FaultInputs : CreateAppointment(rec)
    \/ \E p \in Served, e \in Emails : Book(p, BadDate, e)
    \/ \E j \in jobs : Fire(j, TRUE)
    \/ Tick

SpecFault == Init /\ [][NextFault]_vars

(* the patients router serving several patients *)
NextPatients ==
    \/ \E p \in Patients, e \in Emails, ok \in BOOLEAN :
          CreatePatient(p, e, [i \in 1 .. 3 |-> ok])
    \/ \E j \in jobs, ok \in BOOLEAN : Fire(j, ok)
    \/ Tick

SpecPatients == Init /\ [][NextPatients]_vars

(* the Booking API called from two threads at a time, with the scheduler
   running *)
NextConcurrent ==
    \/ \E t \in Threads, p \in Served, e \in Emails : BookLoad(t, p, NoDate, e)
    \/ \E t \in Threads : BookStore(t)
    \/ \E j \in jobs, ok \in BOOLEAN : Fire(j, ok)
    \/ Tick

SpecConcurrent == Init /\ [][NextConcurrent]_vars

(* the Booking API called while a pool thread of the scheduler is inside
   send_reminder *)
NextRace ==
    \/ \E p \in Served, e \in Emails : Book(p, NoDate, e)
    \/ \E w \in Workers, j \in jobs : FireRead(w, j)
    \/ \E w \in Workers, ok \in BOOLEAN : FireWrite(w, ok)
    \/ Tick

SpecRace == Init /\ [][NextRace]_vars

-----------------------------------------------------------------------------
(* Properties *)

Count(seq, x) == Cardinality({i \in DOMAIN seq : seq[i] = x})

IsUpcoming(a) == a.status = "upcoming"

(* C1: when send_reminder is called twice in succession for the same
   appointment dict and the same kind, the second call is a no-op: it finds
   the kind in reminders_sent, hands nothing to the notification channel, and
   the kind stands exactly once in the dict's reminders_sent and at most once
   in the stored record. *)
C1_IdempotentDelivery ==
    [][ (/\ last.op = "send_reminder"
         /\ last'.op = "send_reminder"
         /\ last'.obj = last.obj
         /\ last'.kind = last.kind)
        => (/\ last'.outcome = "duplicate"
            /\ outbox' = outbox
            /\ Count(heap'[last'.obj].reminders_sent, last'.kind) = 1
            /\ \A i \in DOMAIN files'[last'.patient_id] :
                  Count(files'[last'.patient_id][i].reminders_sent, last'.kind) <= 1) ]_vars

(* a second call for a kind found a first one that had been delivered *)
C1_Witness ==
    /\ last.op = "send_reminder"
    /\ last.outcome = "duplicate"
    /\ heap[last.obj].reminders_sent = << last.kind >>
    /\ \E m \in BagToSet(outbox) :
          m.kind = last.kind /\ m.ok /\ CopiesIn(m, outbox) = 1

(* C2: after any number of successful book_appointment calls, no two
   upcoming appointments in a patient's file have the same (date, slot). *)
C2_NoDoubleBooking ==
    \A p \in Patients : \A i, j \in DOMAIN files[p] :
        (i # j /\ IsUpcoming(files[p][i]) /\ IsUpcoming(files[p][j]))
        => << files[p][i].date, files[p][i].slot >> # << files[p][j].date, files[p][j].slot >>

(* a booking has just added a third appointment on a date that holds others *)
C2_Witness ==
    /\ last.op = "book_appointment"
    /\ last.outcome = "booked"
    /\ Len(files[last.patient_id]) >= 3
    /\ \E i \in 1 .. Len(files[last.patient_id]) - 1 :
          files[last.patient_id][i].date = last.appt.date

(* every slot of the grid is taken on date d by an upcoming appointment *)
AllOccupied(file, d) ==
    \A s \in Range(Grid) : \E i \in DOMAIN file :
        file[i].date = d /\ file[i].slot = s /\ IsUpcoming(file[i])

(* C3: if all 8 grid slots on date D are occupied for a patient,
   book_appointment with preferred date D returns an appointment dated D+1
   in the first slot of the grid. *)
C3_DayRollover ==
    [][ \A p \in Patients, d \in Dates :
          (/\ AllOccupied(files[p], d)
           /\ last'.op = "book_appointment"
           /\ last'.patient_id = p
           /\ last'.date = d)
          => (/\ last'.outcome = "booked"
              /\ last'.appt.date = d + 1
              /\ last'.appt.slot = Grid[1]) ]_vars

(* the plan the claim describes for an appointment at instant T built at now *)
FuturePlan(T, now) ==
    IF now < T - HourUnits
    THEN << [kind |-> "Reminder-60min", fire_at |-> T - HourUnits],
            [kind |-> "Reminder-30min", fire_at |-> T - HourUnits \div 2],
            [kind |-> "Final-Reminder", fire_at |-> T] >>
    ELSE IF now < T - HourUnits \div 2
    THEN << [kind |-> "Reminder-30min", fire_at |-> T - HourUnits \div 2],
            [kind |-> "Final-Reminder", fire_at |-> T] >>
    ELSE IF now < T
    THEN << [kind |-> "Final-Reminder", fire_at |-> T] >>
    ELSE << >>

Scheduled ==
    /\ last.op \in {"book_appointment", "create_appointment", "send_reminder_endpoint"}
    /\ last.outcome \in {"booked", "201", "200"}

LastInstant == last.appt.date * DayUnits + SlotStart(last.appt.slot)

(* C7: schedule_reminders enqueues, in order, exactly those of
   Reminder-60min at T-60min, Reminder-30min at T-30min and Final-Reminder at
   T whose time is strictly later than the clock when the plan is built; no
   job is enqueued for a time that is not in the future. *)
C7_PlanIsFutureCandidates ==
    Scheduled =>
        /\ last.plan = FuturePlan(LastInstant, last.now)
        /\ \A i \in DOMAIN last.plan : last.plan[i].fire_at > last.now
        /\ (last.obj = 0) = (FuturePlan(LastInstant, last.now) = << >>)
        /\ { [kind |-> j.kind, fire_at |-> j.fire_at] : j \in {x \in jobs : x.obj = last.obj} }
              = Range(FuturePlan(LastInstant, last.now))

NineToday == Today(StartClock) * DayUnits + 9 * HourUnits

(* an appointment at 09:00 booked at 08:45 got the Final-Reminder only *)
C7_Witness ==
    /\ Scheduled
    /\ LastInstant = NineToday
    /\ last.now = NineToday - 1
    /\ last.plan = << [kind |-> "Final-Reminder", fire_at |-> NineToday] >>

BuiltAtEight ==
    /\ Scheduled
    /\ LastInstant = NineToday
    /\ last.now = NineToday - HourUnits

(* C8 as stated: for an appointment at 09:00 whose plan is built when the
   clock reads exactly 08:00, the plan is Reminder-60min@08:00,
   Reminder-30min@08:30, Final-Reminder@09:00. *)
C8_PlanAtEightHasThree ==
    BuiltAtEight =>
        last.plan = << [kind |-> "Reminder-60min", fire_at |-> NineToday - HourUnits],
                       [kind |-> "Reminder-30min", fire_at |-> NineToday - HourUnits \div 2],
                       [kind |-> "Final-Reminder", fire_at |-> NineToday] >>

(* C8 amended: for an appointment at 09:00 whose plan is built when the
   clock reads exactly 08:00, the plan is Reminder-30min@08:30 and
   Final-Reminder@09:00; the candidate at 08:00 is not strictly in the
   future and is dropped. *)
C8_PlanAtEightHasTwo ==
    BuiltAtEight =>
        /\ last.plan = << [kind |-> "Reminder-30min", fire_at |-> NineToday - HourUnits \div 2],
                          [kind |-> "Final-Reminder", fire_at |-> NineToday] >>
        /\ { j.kind : j \in {x \in jobs : x.obj = last.obj} }
              = {"Reminder-30min", "Final-Reminder"}

(* an appointment at 09:00 has just been scheduled at 08:00 sharp *)
C8_Witness == BuiltAtEight /\ Len(last.plan) = 2

(* the time at which the kind k of appointment a is due *)
DueAt(a, k) ==
    a.date * DayUnits + SlotStart(a.slot)
      - (IF k = "Reminder-60min" THEN HourUnits
         ELSE IF k = "Reminder-30min" THEN HourUnits \div 2 ELSE 0)

(* the kinds for which a job is pending for the stored appointment a *)
PendingKinds(a) ==
    { j.kind : j \in { x \in jobs : /\ heap[x.obj].patient_id = a.patient_id
                                    /\ heap[x.obj].appointment_id = a.appointment_id } }

(* C4: after a restart of the process, for every stored upcoming appointment
   the pending jobs are exactly the kinds that are still in the future and
   not yet in reminders_sent, and no pending job is for a kind already in
   reminders_sent. *)
C4_RestartRecovery ==
    last.op = "restart" =>
        \A p \in Patients : \A i \in DOMAIN files[p] :
            IsUpcoming(files[p][i]) =>
                /\ PendingKinds(files[p][i])
                     = { k \in Range(Kinds) :
                           /\ DueAt(files[p][i], k) > clock
                           /\ k \notin Range(files[p][i].reminders_sent) }
                /\ PendingKinds(files[p][i]) \cap Range(files[p][i].reminders_sent) = {}

(* the record of the endpoint store the dict a was read from is no longer
   upcoming *)
NoLongerUpcoming(a) ==
    /\ a.appointment_id \in ApptIdInputs
    /\ a.slot \in EndpointSlots
    /\ IsUpcoming(a)
    /\ apptStore[a.appointment_id] # NoFile
    /\ apptStore[a.appointment_id].patient_id = a.patient_id
    /\ apptStore[a.appointment_id].status \in {"cancelled", "completed"}

(* C5: if the stored status of an appointment has been set to cancelled or
   completed before a pending job fires, the firing job hands nothing to the
   notification channel and leaves reminders_sent as it is. *)
C5_CancelledNotDispatched ==
    [][ (/\ last'.op = "send_reminder"
         /\ last'.obj \in DOMAIN heap
         /\ NoLongerUpcoming(heap[last'.obj]))
        => (/\ outbox' = outbox
            /\ heap'[last'.obj].reminders_sent = heap[last'.obj].reminders_sent
            /\ files' = files) ]_vars

(* C6: each (appointment, kind) is delivered through the notification
   channel at most once. *)
C6_DeliveredAtMostOnce ==
    \A m \in BagToSet(outbox) : m.ok => CopiesIn(m, outbox) <= 1

(* the stored record of the dict a holds the kind k *)
StoredAsSent(a, k) ==
    \E i \in DOMAIN files[a.patient_id] :
        /\ files[a.patient_id][i].appointment_id = a.appointment_id
        /\ k \in Range(files[a.patient_id][i].reminders_sent)

(* C9: when send_email fails, the kind is not appended to reminders_sent,
   neither in the dict nor in the stored record. *)
C9_FailedNotMarked ==
    (last.op = "send_reminder" /\ last.outcome = "send_failed") =>
        /\ last.kind \notin Range(heap[last.obj].reminders_sent)
        /\ ~ StoredAsSent(heap[last.obj], last.kind)

(* C10: when there is no address to send to, the kind is not marked as
   sent: reminders_sent is left as it was, in the dict and in the stored
   record. *)
C10_NoDestinationNotMarked ==
    (last.op = "send_reminder" /\ last.outcome = "no_email") =>
        /\ last.kind \notin Range(heap[last.obj].reminders_sent)
        /\ ~ StoredAsSent(heap[last.obj], last.kind)

(* C11: the manual reminder endpoint (POST send_reminder/{appointment_id})
   bypasses the scheduler: when it succeeds it has handed a reminder to the
   notification channel itself, has enqueued no scheduler job, and returns
   the result of the delivery. *)
C11_TriggerSendsNow ==
    [][ (last'.op = "send_reminder_endpoint" /\ last'.outcome = "200")
        => (/\ jobs' = jobs
            /\ outbox' # outbox
            /\ last'.kind # None) ]_vars

(* C12: every book_appointment call either returns a persisted appointment
   or reports NoSlotAvailable with nothing persisted; a patient whose grid
   slots are all taken does not make the search run on without end. *)
C12_BookTerminates ==
    last.op = "book_appointment" =>
        \/ /\ last.outcome = "booked"
           /\ \E i \in DOMAIN files[last.patient_id] :
                 files[last.patient_id][i] = [last.appt EXCEPT !.reminders_sent = << >>]
        \/ last.outcome = "NoSlotAvailable"

(* C13: when schedule_reminders raises during a booking, the appointment
   that was just allocated stays in the store it was written to: the
   patient's file holds it after book_appointment, the endpoint store holds
   it after create_appointment; nothing is rolled back. *)
C13_BookingSurvivesScheduleFailure ==
    [][ /\ (/\ last'.op = "book_appointment"
            /\ last'.outcome = "ValueError schedule_reminders")
           => (/\ files'[last'.patient_id] = Append(files[last'.patient_id], last'.appt)
               /\ last'.appt.status = "upcoming"
               /\ last'.appt.slot \in Range(Grid))
        /\ (last'.op = "create_appointment" /\ last'.outcome = "500")
           => (/\ apptStore[last'.appt.appointment_id] = NoFile
               /\ apptStore'[last'.appt.appointment_id] = last'.appt) ]_vars

(* a booking whose reminders could not be scheduled has left its appointment
   in the file, which held another one already *)
C13_Witness ==
    /\ last.op = "book_appointment"
    /\ last.outcome = "ValueError schedule_reminders"
    /\ Len(files[last.patient_id]) >= 2
    /\ files[last.patient_id][Len(files[last.patient_id])] = last.appt
    /\ \A j \in jobs : heap[j.obj] # last.appt

(* C14: appointment_id is unique: no two stored appointments, of the same
   patient or of different patients, have the same appointment_id. *)
C14_UniqueAppointmentId ==
    \A p, q \in Patients : \A i \in DOMAIN files[p], j \in DOMAIN files[q] :
        (p # q \/ i # j) => files[p][i].appointment_id # files[q][j].appointment_id

(* C15: in every reachable state the reminders_sent of each stored
   appointment holds only Reminder-60min, Reminder-30min and Final-Reminder,
   and each of them at most once; so it is after create_patient has booked
   and sent its immediate reminders. *)
C15_LedgerHoldsPlanKinds ==
    \A p \in Patients : \A i \in DOMAIN files[p] :
        /\ Range(files[p][i].reminders_sent) \subseteq Range(Kinds)
        /\ \A k \in Range(Kinds) : Count(files[p][i].reminders_sent, k) <= 1

(* C16: a reminder job is enqueued only for an appointment whose status is
   upcoming when schedule_reminders runs, whether it comes from
   book_appointment, from the appointment-creation endpoint or from the
   manual trigger. *)
C16_OnlyUpcomingScheduled ==
    /\ (Scheduled /\ last.plan # << >>) => IsUpcoming(last.appt)
    /\ \A j \in jobs : IsUpcoming(heap[j.obj])

(* C17: every dispatch attempt, whatever its outcome, appends exactly one
   line to the reminder log, and the line carries the timestamp, the
   appointment id, the kind and the outcome. *)
C17_EveryAttemptLogged ==
    [][ last'.op = "send_reminder"
        => (/\ Len(log') = Len(log) + 1
            /\ SubSeq(log', 1, Len(log)) = log
            /\ {"at", "appointment_id", "kind", "outcome"} \subseteq DOMAIN log'[Len(log')]
            /\ log'[Len(log')].kind = last'.kind
            /\ log'[Len(log')].at = clock) ]_vars

(* the earliest slot of the grid that no upcoming appointment of the file
   occupies on date d, or None *)
FirstFreeOn(file, d) ==
    LET free == {i \in DOMAIN Grid :
                    ~ \E k \in DOMAIN file : /\ file[k].date = d
                                             /\ file[k].slot = Grid[i]
                                             /\ IsUpcoming(file[k])}
    IN  IF free = {} THEN None
        ELSE Grid[CHOOSE i \in free : \A j \in free : i <= j]

(* the date a book_appointment call asks for *)
RequestedDate(d, now) == IF d = NoDate THEN Today(now) ELSE d

(* C18: slot selection is scoped to the requested date: book_appointment
   picks the earliest grid slot not occupied by an upcoming appointment of
   the patient on the requested date, so a patient whose appointments are
   all on other dates gets the first slot of the grid on that date. *)
C18_SlotScopedToDate ==
    [][ (/\ last'.op = "book_appointment"
         /\ FirstFreeOn(files[last'.patient_id], RequestedDate(last'.date, clock)) # None)
        => (/\ last'.outcome = "booked"
            /\ last'.appt.date = RequestedDate(last'.date, clock)
            /\ last'.appt.slot
                 = FirstFreeOn(files[last'.patient_id], RequestedDate(last'.date, clock))) ]_vars

(* the place of a kind in the order of the plan; 0 for other kinds *)
KindRank(k) ==
    CASE k = "Reminder-60min" -> 1
      [] k = "Reminder-30min" -> 2
      [] k = "Final-Reminder" -> 3
      [] OTHER -> 0

SameAppointment(a, b) ==
    a.patient_id = b.patient_id /\ a.appointment_id = b.appointment_id

(* C19: the kinds of one appointment are attempted in the order
   Reminder-60min, Reminder-30min, Final-Reminder: when the scheduler
   dispatches a kind, no earlier kind of the same appointment is still
   pending, and the plan's kinds stand in that order in reminders_sent. *)
C19_AttemptedInPlanOrder ==
    [][ (last'.op = "send_reminder" /\ last'.obj \in DOMAIN heap')
        => (/\ \A j \in jobs' :
                  SameAppointment(heap'[j.obj], last'.appt)
                  => KindRank(j.kind) >= KindRank(last'.kind)
            /\ \A m, n \in DOMAIN heap'[last'.obj].reminders_sent :
                  (/\ m < n
                   /\ KindRank(heap'[last'.obj].reminders_sent[m]) > 0
                   /\ KindRank(heap'[last'.obj].reminders_sent[n]) > 0)
                  => KindRank(heap'[last'.obj].reminders_sent[m])
                       < KindRank(heap'[last'.obj].reminders_sent[n])) ]_vars

(* the Final-Reminder of an appointment has just been dispatched after its
   Reminder-60min and its Reminder-30min *)
C19_Witness ==
    /\ last.op = "send_reminder"
    /\ last.kind = "Final-Reminder"
    /\ last.outcome \in {"sent", "send_failed"}
    /\ heap[last.obj].reminders_sent = Kinds
    /\ Len(log) >= 3

(* C20: for any interleaving of two book_appointment calls for the same
   patient, both appointments they return are in the patient's file
   afterwards, and they differ in (date, slot) and in appointment_id. *)
C20_ConcurrentBookingsSafe ==
    \A t, u \in Threads :
        (/\ t # u
         /\ frames[t].pc = "returned" /\ frames[t].outcome = "booked"
         /\ frames[u].pc = "returned" /\ frames[u].outcome = "booked"
         /\ frames[t].patient_id = frames[u].patient_id)
        => (/\ \E i \in DOMAIN files[frames[t].patient_id] :
                  SameAppointment(files[frames[t].patient_id][i], frames[t].appt)
                  /\ files[frames[t].patient_id][i].date = frames[t].appt.date
                  /\ files[frames[t].patient_id][i].slot = frames[t].appt.slot
            /\ << frames[t].appt.date, frames[t].appt.slot >>
                  # << frames[u].appt.date, frames[u].appt.slot >>
            /\ frames[t].appt.appointment_id # frames[u].appt.appointment_id)

(* the dict a was read from the record the endpoint store holds now *)
DictOfStored(a) ==
    /\ a.appointment_id \in ApptIdInputs
    /\ a.slot \in EndpointSlots
    /\ apptStore[a.appointment_id] # NoFile
    /\ apptStore[a.appointment_id].patient_id = a.patient_id

(* C21: when a reminder fires after a collaborator has changed the stored
   status of the appointment, the write of reminders_sent does not put
   another status in its place: the endpoint store is left alone and the
   record the dispatch writes carries the status the collaborator stored. *)
C21_StatusNotOverwritten ==
    [][ (/\ last'.op = "send_reminder"
         /\ last'.outcome # "duplicate"
         /\ last'.obj \in DOMAIN heap
         /\ DictOfStored(heap[last'.obj]))
        => (/\ apptStore' = apptStore
            /\ \A i \in DOMAIN files'[last'.patient_id] :
                  files'[last'.patient_id][i].appointment_id = last'.appt.appointment_id
                  => files'[last'.patient_id][i].status
                       = apptStore[last'.appt.appointment_id].status) ]_vars

(* C22: for any interleaving of a reminder dispatch with a book_appointment
   call for the same patient, the appointment that was booked is still in
   the patient's file afterwards: no step takes a stored appointment out of
   the file. *)
C22_NoLostBooking ==
    [][ \A p \in Patients : \A i \in DOMAIN files[p] :
          \E k \in DOMAIN files'[p] :
             /\ files'[p][k].appointment_id = files[p][i].appointment_id
             /\ files'[p][k].date = files[p][i].date
             /\ files'[p][k].slot = files[p][i].slot ]_vars

(* the messages handed to send_email in the step *)
NewMessages ==
    {m \in BagToSet(outbox') : CopiesIn(m, outbox') > CopiesIn(m, outbox)}

(* C23: the destination of a reminder is resolved when it is dispatched: a
   job that fires for a patient with a stored address sends its reminder to
   the address stored at that time, not to what was known when the job was
   enqueued. *)
C23_DestinationAtDispatch ==
    [][ (/\ last'.op = "send_reminder"
         /\ last'.outcome # "duplicate"
         /\ patients[last'.patient_id] # None)
        => (/\ NewMessages # {}
            /\ \A m \in NewMessages : m.to = patients[last'.patient_id]) ]_vars

IsPrefix(s, t) == Len(s) <= Len(t) /\ SubSeq(t, 1, Len(s)) = s

(* C24: the stored reminders_sent of an appointment is append-only: in every
   step each stored record keeps its former reminders_sent as a prefix, and
   a dispatch makes it longer by one kind at most. *)
C24_LedgerAppendOnly ==
    [][ \A p \in Patients : \A i \in DOMAIN files[p] :
          /\ i \in DOMAIN files'[p]
          /\ IsPrefix(files[p][i].reminders_sent, files'[p][i].reminders_sent)
          /\ Len(files'[p][i].reminders_sent) <= Len(files[p][i].reminders_sent) + 1 ]_vars

(* the record of the endpoint store the dict a was read from has been
   deleted *)
Deleted(a) ==
    /\ a.appointment_id \in ApptIdInputs
    /\ a.slot \in EndpointSlots
    /\ apptStore[a.appointment_id] = NoFile

(* C25: after an appointment record has been deleted from the store, a
   pending job for it that fires does not invoke the notification channel
   and does not modify the store. *)
C25_DeletedNotDispatched ==
    [][ (/\ last'.op = "send_reminder"
         /\ last'.obj \in DOMAIN heap
         /\ Deleted(heap[last'.obj]))
        => (/\ outbox' = outbox
            /\ files' = files
            /\ apptStore' = apptStore) ]_vars

(* C26: a successful booking gives the appointment the id A followed by N+1
   in three digits, N being the number of appointments already in the
   patient's file; the k-th booking of a patient gets A00k, the ids in one
   file are pairwise distinct, and the new appointment is upcoming with an
   empty reminders_sent. *)
C26_IdIsCountPlusOne ==
    [][ (last'.op = "book_appointment" /\ last'.outcome = "booked")
        => (/\ last'.appt.appointment_id = IdText[Len(files[last'.patient_id]) + 1]
            /\ last'.appt.status = "upcoming"
            /\ last'.appt.reminders_sent = << >>
            /\ files'[last'.patient_id] = Append(files[last'.patient_id], last'.appt)
            /\ \A k \in DOMAIN files'[last'.patient_id] :
                  files'[last'.patient_id][k].appointment_id = IdText[k]
            /\ \A k, n \in DOMAIN files'[last'.patient_id] :
                  k # n => files'[last'.patient_id][k].appointment_id
                             # files'[last'.patient_id][n].appointment_id) ]_vars

(* the third booking of a patient has just got the id A003 *)
C26_Witness ==
    /\ last.op = "book_appointment"
    /\ last.outcome = "booked"
    /\ last.appt.appointment_id = "A003"
    /\ Len(files[last.patient_id]) = 3

(* C27: the ledger entry is written before delivery: in every reachable
   state, every (appointment, kind) the notification channel was invoked
   for, whatever the channel answered, is in the reminders_sent of that
   appointment's dict and of its stored record. *)
C27_LedgerBeforeDelivery ==
    \A m \in BagToSet(outbox) :
        \E o \in DOMAIN heap :
            /\ SameAppointment(heap[o], m)
            /\ m.kind \in Range(heap[o].reminders_sent)
            /\ StoredAsSent(heap[o], m.kind)

(* the channel has failed for a kind that stands in reminders_sent *)
C27_Witness ==
    \E m \in BagToSet(outbox) :
        /\ ~ m.ok
        /\ \E o \in DOMAIN heap :
              /\ SameAppointment(heap[o], m)
              /\ m.kind \in Range(heap[o].reminders_sent)

(* C28: a patient's file never holds more appointments than the grid has
   slots and never two appointments with the same slot, whatever their
   dates; once it holds that many, no further booking for the patient
   completes. *)
C28_AtMostOneGridOfAppointments ==
    [][ \A p \in Patients :
          /\ Len(files'[p]) <= Len(Grid)
          /\ \A i, j \in DOMAIN files'[p] :
                i # j => files'[p][i].slot # files'[p][j].slot
          /\ (/\ Len(files[p]) = Len(Grid)
              /\ last'.op = "book_appointment"
              /\ last'.patient_id = p)
             => (last'.outcome # "booked" /\ files'[p] = files[p]) ]_vars

(* a booking for a patient whose file holds a full grid of appointments,
   spread over two dates, has just failed *)
C28_Witness ==
    /\ last.op = "book_appointment"
    /\ last.outcome = "RecursionError"
    /\ Len(files[last.patient_id]) = Len(Grid)
    /\ \E i, j \in DOMAIN files[last.patient_id] :
          files[last.patient_id][i].date # files[last.patient_id][j].date

(* C29: a dispatch of a kind that is already in the dict's reminders_sent
   is a pure no-op: reminders_sent is unchanged, no file is written, the
   notification channel is not invoked and no line is added to the log. *)
C29_DuplicateIsNoOp ==
    [][ (/\ last'.op = "send_reminder"
         /\ last'.obj \in DOMAIN heap
         /\ last'.kind \in Range(heap[last'.obj].reminders_sent))
        => (/\ heap' = heap
            /\ files' = files
            /\ outbox' = outbox
            /\ log' = log
            /\ last'.outcome = "duplicate") ]_vars

(* a kind that had been sent without an address has been dispatched again,
   now with an address, and nothing was sent or logged *)
C29_Witness ==
    /\ last.op = "send_reminder"
    /\ last.outcome = "duplicate"
    /\ last.email # None
    /\ last.kind \in Range(heap[last.obj].reminders_sent)
    /\ outbox = EmptyBag
    /\ Len(log) = Len(heap[last.obj].reminders_sent)

(* C30: the manual reminder endpoint reports a missing patient as 404
   'Patient not found': when the appointment exists and its patient record
   does not, the caller gets the 404 outcome, no job is enqueued and no
   state changes. *)
C30_MissingPatientIs404 ==
    [][ (/\ last'.op = "send_reminder_endpoint"
         /\ last'.appt # NoAppt
         /\ Parses(last'.appt)
         /\ patients[last'.appt.patient_id] = None)
        => (/\ last'.outcome = "404"
            /\ jobs' = jobs
            /\ UNCHANGED <<files, apptStore, patients, heap, outbox, log>>) ]_vars

====
